---------------------------- MODULE Spec2Model ----------------------------
(***************************************************************************)
(* Actionary: the dictionary lookup server action (src/app/actions.ts,     *)
(* the variant with retries) and the page that calls it (the current page  *)
(* component).                                                             *)
(*                                                                         *)
(* Texts are sequences of lexical tokens (TLA+ strings): a markdown fence, *)
(* white space, a JSON token or a word of prose.  An error message is a    *)
(* sequence of tokens too, and String.prototype.includes is membership of  *)
(* the needle among the tokens.                                            *)
(***************************************************************************)
EXTENDS Naturals, Sequences, FiniteSets, TLC

VARIABLES
    apiKey,      \* process.env.GEMINI_API_KEY is set
    pc,          \* position of the one searchDictionary call that is modelled
    modelIdx,    \* index into candidateModels of the for-of loop
    attempt,     \* the inner loop's counter
    checkError,  \* the captured error, or NoError for null
    calls,       \* every generateContent call issued so far, in order
    response,    \* what the promise returned by searchDictionary settled with
    query,       \* page state: the input's text
    result,      \* page state: the entry shown, or NoResult
    error,       \* page state: the error text shown, <<>> for ''
    lookups,     \* page: every searchDictionary call started by the page
    shownOf,     \* page: which lookup's completion wrote result/error last
    searchExit,  \* page: where the latest executeSearch call left the function,
                 \* or "cleared" once handleClear has run after it
    elapsed,     \* whole seconds since the lookup's first generateContent call
    invocation,  \* which call of searchDictionary, counted from 1, pc is in
    rawText,     \* a response text handed to the strip-and-parse step
    parsed       \* what that step made of it, bare and inside a fence

orchVars == <<apiKey, pc, modelIdx, attempt, checkError, calls, response>>
pageVars == <<query, result, error, lookups, shownOf, searchExit>>
auxVars == <<elapsed, invocation, rawText, parsed>>
vars == <<apiKey, pc, modelIdx, attempt, checkError, calls, response,
          query, result, error, lookups, shownOf, searchExit,
          elapsed, invocation, rawText, parsed>>

----------------------------------------------------------------------------
(* Program constants.                                                      *)

\* candidateModels has three entries
NumModels == 3
\* for (let attempt = 0; attempt < 2; attempt++)
MaxAttempts == 2

candidateModels == <<"gemini-2.5-flash-lite", "gemini-2.5-flash", "gemini-2.0-flash">>

----------------------------------------------------------------------------
(* JavaScript values, as JSON.parse builds them.                           *)

JUndefined == [type |-> "undefined"]
JNull == [type |-> "null"]
JNum(tok) == [type |-> "number", tok |-> tok]
JStr(tok) == [type |-> "string", s |-> tok]
JArr(items) == [type |-> "array", items |-> items]
JObj(members) == [type |-> "object", members |-> members]

\* Tokens of the texts.
\* (a TLA+ string cannot hold a backtick: an apostrophe stands for it)
FenceJson == "'''json"
Fence == "'''"
\* white space of String.prototype.trim and of JSON: space, tab, line feed
WhiteSpace == {" ", "\t", "\n"}
StrLits == {"\"type\"", "\"word\"", "\"idiom\"", "\"term\"", "\"receipt\"",
            "\"\"", "\"meaning\"", "\"definitions\"", "\"partOfSpeech\"",
            "\"noun\"", "\"uketori\"", "\"kick the bucket\"", "\"rootWords\"",
            "\"recipe\""}
NumLits == {"5"}
EmptyStrLit == "\"\""

\* obj.key of JavaScript for an own data property: the last member of that
\* name wins, a missing one reads as undefined.  The caller has checked that
\* obj is neither null nor undefined.
RECURSIVE LastMember(_, _, _)
LastMember(members, key, i) ==
    IF i = 0 THEN JUndefined
    ELSE IF members[i].k = key THEN members[i].v
    ELSE LastMember(members, key, i - 1)

GetProp(v, key) ==
    IF v.type = "object" THEN LastMember(v.members, key, Len(v.members))
    ELSE JUndefined

\* ToBoolean
Truthy(v) ==
    CASE v.type = "undefined" -> FALSE
      [] v.type = "null" -> FALSE
      [] v.type = "string" -> v.s # EmptyStrLit
      [] v.type = "number" -> v.tok # "0"
      [] OTHER -> TRUE

IsArray(v) == v.type = "array"

----------------------------------------------------------------------------
(* text.replace(/```json/g, '').replace(/```/g, '').trim(), on tokens      *)

RECURSIVE RemoveAll(_, _)
RemoveAll(text, tok) ==
    IF text = <<>> THEN <<>>
    ELSE IF Head(text) = tok THEN RemoveAll(Tail(text), tok)
    ELSE <<Head(text)>> \o RemoveAll(Tail(text), tok)

RECURSIVE TrimStart(_)
TrimStart(text) ==
    IF text # <<>> /\ Head(text) \in WhiteSpace THEN TrimStart(Tail(text))
    ELSE text

RECURSIVE TrimEnd(_)
TrimEnd(text) ==
    IF text # <<>> /\ text[Len(text)] \in WhiteSpace
    THEN TrimEnd(SubSeq(text, 1, Len(text) - 1))
    ELSE text

Trim(text) == TrimEnd(TrimStart(text))

\* StripFences that knows the opening fence only
StripOpeningFence(text) == Trim(RemoveAll(text, FenceJson))

StripFences(text) == Trim(RemoveAll(RemoveAll(text, FenceJson), Fence))

----------------------------------------------------------------------------
(* JSON.parse over the tokens: a recursive descent that returns            *)
(* [ok, val, next] on success and [ok |-> FALSE, at] at the first token    *)
(* that cannot continue the text (Len + 1: the text ended too early).      *)

RECURSIVE SkipWs(_, _)
SkipWs(t, i) ==
    IF i <= Len(t) /\ t[i] \in WhiteSpace THEN SkipWs(t, i + 1) ELSE i

ParseOk(val, next) == [ok |-> TRUE, val |-> val, next |-> next, at |-> 0]
ParseFail(at) == [ok |-> FALSE, val |-> JUndefined, next |-> 0, at |-> at]

RECURSIVE ParseValue(_, _)
RECURSIVE ParseElems(_, _, _)
RECURSIVE ParseMembers(_, _, _)

\* the elements of an array after "[" or ",": items holds those read so far
ParseElems(t, i0, items) ==
    LET e == ParseValue(t, i0)
    IN  IF ~e.ok THEN e
        ELSE LET j == SkipWs(t, e.next)
                 got == Append(items, e.val)
             IN  IF j > Len(t) THEN ParseFail(j)
                 ELSE IF t[j] = "]" THEN ParseOk(JArr(got), j + 1)
                 ELSE IF t[j] = "," THEN ParseElems(t, j + 1, got)
                 ELSE ParseFail(j)

\* the members of an object after "{" or ","
ParseMembers(t, i0, members) ==
    LET i == SkipWs(t, i0)
    IN  IF i > Len(t) THEN ParseFail(i)
        ELSE IF t[i] \notin StrLits THEN ParseFail(i)
        ELSE LET c == SkipWs(t, i + 1)
             IN  IF c > Len(t) THEN ParseFail(c)
                 ELSE IF t[c] # ":" THEN ParseFail(c)
                 ELSE LET e == ParseValue(t, c + 1)
                      IN  IF ~e.ok THEN e
                          ELSE LET j == SkipWs(t, e.next)
                                   got == Append(members, [k |-> t[i], v |-> e.val])
                               IN  IF j > Len(t) THEN ParseFail(j)
                                   ELSE IF t[j] = "}" THEN ParseOk(JObj(got), j + 1)
                                   ELSE IF t[j] = "," THEN ParseMembers(t, j + 1, got)
                                   ELSE ParseFail(j)

ParseValue(t, i0) ==
    LET i == SkipWs(t, i0)
    IN  IF i > Len(t) THEN ParseFail(i)
        ELSE IF t[i] = "null" THEN ParseOk(JNull, i + 1)
        ELSE IF t[i] \in NumLits THEN ParseOk(JNum(t[i]), i + 1)
        ELSE IF t[i] \in StrLits THEN ParseOk(JStr(t[i]), i + 1)
        ELSE IF t[i] = "[" THEN
            LET j == SkipWs(t, i + 1)
            IN  IF j <= Len(t) /\ t[j] = "]" THEN ParseOk(JArr(<<>>), j + 1)
                ELSE ParseElems(t, i + 1, <<>>)
        ELSE IF t[i] = "{" THEN
            LET j == SkipWs(t, i + 1)
            IN  IF j <= Len(t) /\ t[j] = "}" THEN ParseOk(JObj(<<>>), j + 1)
                ELSE ParseMembers(t, i + 1, <<>>)
        ELSE ParseFail(i)

\* JSON.parse(text): one value, then nothing but white space
JsonParse(t) ==
    LET p == ParseValue(t, 1)
    IN  IF ~p.ok THEN p
        ELSE LET j == SkipWs(t, p.next)
             IN  IF j > Len(t) THEN p ELSE ParseFail(j)

----------------------------------------------------------------------------
(* Errors.  name and message are the JavaScript error's; cause is the      *)
(* failure class of the attempt that raised it, which the code never       *)
(* reads: it classifies by the message alone.                              *)

Err(name, cause, message) == [name |-> name, cause |-> cause, message |-> message]
NoError == Err("null", "none", <<>>)

\* error.message.includes(needle)
Includes(message, needle) == \E i \in DOMAIN message : message[i] = needle

\* new Error('Request timed out')
TimeoutError == Err("Error", "Timeout", <<"Request", "timed out">>)

\* new Error("Invalid response structure from model")
InvalidStructureError ==
    Err("Error", "InvalidSchema", <<"Invalid response structure from model">>)

\* data.term with data null: the engine's TypeError
NullPayloadError ==
    Err("TypeError", "InvalidSchema",
        <<"Cannot read properties of null (reading 'term')">>)

\* The SyntaxError of JSON.parse.  Its message is the engine's: V8 quotes the
\* offending token and the source text around it, older V8 the token and its
\* position; both builds are in use, so the message is either.
SyntaxErrors(t, at) ==
    IF at > Len(t)
    THEN {Err("SyntaxError", "MalformedResponse", <<"Unexpected end of JSON input">>)}
    ELSE {Err("SyntaxError", "MalformedResponse",
              <<"Unexpected token", t[at], ",">> \o t \o <<"is not valid JSON">>),
          Err("SyntaxError", "MalformedResponse",
              <<"Unexpected token", t[at], "in JSON at position", ToString(at - 1)>>)}

\* What the backend's client rejects generateContent with: an error naming the
\* HTTP status of the response.
ServiceUnavailableError ==
    Err("GoogleGenerativeAIFetchError", "ServiceUnavailable",
        <<"[GoogleGenerativeAI Error]:", "Error fetching from", "[", "503",
          "Service Unavailable", "]", "The model is overloaded.">>)
ForbiddenError ==
    Err("GoogleGenerativeAIFetchError", "Auth",
        <<"[GoogleGenerativeAI Error]:", "Error fetching from", "[", "403",
          "Forbidden", "]">>)

----------------------------------------------------------------------------
(* What a backend may answer.                                              *)

\* the fenced entry of a word
TextFencedWord ==
    <<FenceJson, "\n", "{", "\"type\"", ":", "\"word\"", ",",
      "\"term\"", ":", "\"receipt\"", ",",
      "\"meaning\"", ":", "[", "{", "\"partOfSpeech\"", ":", "\"noun\"", ",",
      "\"definitions\"", ":", "[", "\"uketori\"", "]", "}", "]", ",",
      "\"rootWords\"", ":", "[", "{", "\"term\"", ":", "\"recipe\"", "}", "]",
      "}", "\n", Fence>>
\* the bare entry of an idiom, with no meanings
TextIdiom ==
    <<"{", "\"type\"", ":", "\"idiom\"", ",", "\"term\"", ":",
      "\"kick the bucket\"", ",", "\"meaning\"", ":", "[", "]", "}">>
\* prose instead of JSON
TextProse == <<"Error", "503">>
\* JSON that is no object
TextNull == <<"null">>
TextNumber == <<"5">>
\* objects that miss a mandatory field, or hold it empty or of another type
TextNoTerm == <<"{", "\"meaning\"", ":", "[", "]", "}">>
TextNoMeaning == <<"{", "\"term\"", ":", "\"receipt\"", "}">>
TextEmptyTerm == <<"{", "\"term\"", ":", "\"\"", ",", "\"meaning\"", ":", "[", "]", "}">>
TextMeaningNull ==
    <<"{", "\"term\"", ":", "\"receipt\"", ",", "\"meaning\"", ":", "null", "}">>
\* an object whose term is an empty list instead of a string
TextTermList == <<"{", "\"term\"", ":", "[", "]", ",", "\"meaning\"", ":", "[", "]", "}">>
\* an entry without its type tag
TextNoType == <<"{", "\"term\"", ":", "\"receipt\"", ",", "\"meaning\"", ":", "[", "]", "}">>
\* an entry of a word with a meaning group that has no definitions
TextNoDefinitions ==
    <<"{", "\"type\"", ":", "\"word\"", ",", "\"term\"", ":", "\"receipt\"", ",",
      "\"meaning\"", ":", "[", "{", "\"partOfSpeech\"", ":", "\"noun\"", "}", "]", "}">>

Texts == {TextFencedWord, TextIdiom, TextProse, TextNull, TextNumber, TextNoTerm,
          TextNoMeaning, TextEmptyTerm, TextMeaningNull, TextTermList, TextNoType,
          TextNoDefinitions}

Resolved(text) == [kind |-> "text", text |-> text, err |-> NoError]
Rejected(err) == [kind |-> "reject", text |-> <<>>, err |-> err]
NoSettlement == [kind |-> "none", text |-> <<>>, err |-> NoError]

\* how a generateContent call may settle
Settlements ==
    {Resolved(t) : t \in Texts} \cup {Rejected(ServiceUnavailableError),
                                     Rejected(ForbiddenError)}

----------------------------------------------------------------------------
(* One attempt, from the settled race to the return or the throw.          *)

Success(data) == [ok |-> TRUE, data |-> data, err |-> NoError]
Thrown(err) == [ok |-> FALSE, data |-> JUndefined, err |-> err]

\* if (!data.term || !Array.isArray(data.meaning)) throw ...
\* data.term of null raises before the test is evaluated.
Validate(data) ==
    IF data.type \in {"null", "undefined"} THEN Thrown(NullPayloadError)
    ELSE IF \/ ~Truthy(GetProp(data, "\"term\""))
            \/ ~IsArray(GetProp(data, "\"meaning\""))
         THEN Thrown(InvalidStructureError)
         ELSE Success(data)

\* the try block after the race was won by the backend's text: the outcomes
\* it may have (one, but for the engine's choice of a SyntaxError message)
ProcessText(text) ==
    LET clean == StripFences(text)
        p == JsonParse(clean)
    IN  IF p.ok THEN {Validate(p.val)}
        ELSE {Thrown(e) : e \in SyntaxErrors(clean, p.at)}

\* the try block for any settlement of generateContent
AttemptOutcomes(s) ==
    IF s.kind = "reject" THEN {Thrown(s.err)} ELSE ProcessText(s.text)

\* every way an attempt whose call settled may end: how the call settled, and
\* the outcome of the try block
SettledAttempts ==
    UNION {{[kind |-> s.kind, o |-> o] : o \in AttemptOutcomes(s)} : s \in Settlements}

\* what a settlement nobody awaits would have brought
LateSettlements ==
    {IF \E o \in AttemptOutcomes(s) : o.ok THEN "ok" ELSE "failed" : s \in Settlements}

----------------------------------------------------------------------------
(* The catch block.                                                        *)

\* CaptureError that keeps the error of the latest failure
CaptureLastError(ce, e) == e

\* if (!checkError && error.message.includes('503')) checkError = error;
\* else if (!checkError) checkError = error;
CaptureError(ce, e) ==
    IF ce = NoError /\ Includes(e.message, "503") THEN e
    ELSE IF ce = NoError THEN e
    ELSE ce

\* isTransient without the test for the timeout's message
isTransientOnly503(e) == Includes(e.message, "503")

\* const isTransient = error.message.includes('503')
\*                  || error.message.includes('timed out');
isTransient(e) == Includes(e.message, "503") \/ Includes(e.message, "timed out")

----------------------------------------------------------------------------
(* The values searchDictionary's promise settles with.                     *)

NoResponse == [status |-> "pending", data |-> JUndefined, error |-> <<>>]
ReturnSuccess(data) == [status |-> "success", data |-> data, error |-> <<>>]
ReturnFailure(message) == [status |-> "failure", data |-> JUndefined, error |-> message]
Throws(message) == [status |-> "thrown", data |-> JUndefined, error |-> message]

\* the missing key raised instead of returned
MissingKeyThrows == Throws(<<"Server configuration error: API Key missing">>)

\* return { success: false, error: 'Server configuration error: ...' }
MissingKeyResponse ==
    ReturnFailure(<<"Server configuration error: GEMINI_API_KEY is missing.">>)

\* the failure with a fixed text, whatever was captured
GenericFailedResponse(ce) ==
    ReturnFailure(<<"Failed to retrieve dictionary data. Please try again.">>)

\* `Failed to retrieve dictionary data. Last error: ${checkError?.message || 'Unknown error'}`
AllFailedResponse(ce) ==
    ReturnFailure(<<"Failed to retrieve dictionary data. Last error:">>
                  \o (IF ce.message # <<>> THEN ce.message ELSE <<"Unknown error">>))


----------------------------------------------------------------------------
(* searchDictionary, the variant with retries.  A step runs the function   *)
(* from one await to the next; the calls it issues are logged in `calls`.  *)

\* model.generateContent(prompt), raced against its 25 s timer.  state is
\* "inflight" while the race is open, "won" when the call settled first,
\* "timedout" when the timer fired first (the call itself is still open) and
\* "late" when such an abandoned call settled afterwards.  kind is how the
\* call settled, data the payload parsed from it, err what the attempt threw;
\* late tells whether an abandoned call brought a valid entry ("ok") or not.
Call(m, a) ==
    [model |-> m, attempt |-> a, state |-> "inflight", kind |-> "none",
     data |-> JUndefined, err |-> NoError, late |-> "none"]

\* the call of the open race
Current == calls[Len(calls)]

Won(kind, o) ==
    [calls EXCEPT ![Len(calls)] =
        [@ EXCEPT !.state = "won", !.kind = kind, !.data = o.data, !.err = o.err]]

TimedOut ==
    [calls EXCEPT ![Len(calls)] =
        [@ EXCEPT !.state = "timedout", !.err = TimeoutError]]

\* NextModel with a loop index that steps over a model
NextModelSkips(cs, ce) ==
    IF modelIdx + 2 <= NumModels
    THEN /\ modelIdx' = modelIdx + 2
         /\ attempt' = 0
         /\ calls' = Append(cs, Call(modelIdx + 2, 0))
         /\ pc' = "racing"
         /\ UNCHANGED response
    ELSE /\ pc' = "done"
         /\ response' = AllFailedResponse(ce)
         /\ calls' = cs
         /\ UNCHANGED <<modelIdx, attempt>>

\* the outer loop moves on: the next model's first attempt, or the return
\* after the last model
NextModel(cs, ce) ==
    IF modelIdx < NumModels
    THEN /\ modelIdx' = modelIdx + 1
         /\ attempt' = 0
         /\ calls' = Append(cs, Call(modelIdx + 1, 0))
         /\ pc' = "racing"
         /\ UNCHANGED response
    ELSE /\ pc' = "done"
         /\ response' = AllFailedResponse(ce)
         /\ calls' = cs
         /\ UNCHANGED <<modelIdx, attempt>>

\* attempt++ and the test attempt < 2 of the inner loop
NextAttempt(cs, ce) ==
    IF attempt + 1 < MaxAttempts
    THEN /\ attempt' = attempt + 1
         /\ calls' = Append(cs, Call(modelIdx, attempt + 1))
         /\ pc' = "racing"
         /\ UNCHANGED <<modelIdx, response>>
    ELSE NextModel(cs, ce)

\* OnSuccess with the return lost: the loop goes on to the next model
OnSuccessKeepsGoing(cs, data) ==
    /\ NextModel(cs, checkError)
    /\ UNCHANGED checkError

\* return { success: true, data }
OnSuccess(cs, data) ==
    /\ pc' = "done"
    /\ response' = ReturnSuccess(data)
    /\ calls' = cs
    /\ UNCHANGED <<modelIdx, attempt, checkError>>

\* OnFailure with a handler that gives up on an error it does not know
OnFailureRethrows(cs, e) ==
    IF ~isTransient(e)
    THEN /\ pc' = "done"
         /\ response' = Throws(e.message)
         /\ calls' = cs
         /\ UNCHANGED <<modelIdx, attempt, checkError>>
    ELSE /\ checkError' = CaptureError(checkError, e)
         /\ IF attempt = 0
            THEN /\ pc' = "backoff"
                 /\ calls' = cs
                 /\ UNCHANGED <<modelIdx, attempt, response>>
            ELSE NextAttempt(cs, CaptureError(checkError, e))

\* the catch block, and the loops up to the next await.  error.message of a
\* thrown null or undefined raises inside the handler, and nothing catches
\* that.
OnFailure(cs, e) ==
    IF e = NoError
    THEN /\ pc' = "done"
         /\ response' = Throws(<<"Cannot read properties of null (reading 'message')">>)
         /\ calls' = cs
         /\ UNCHANGED <<modelIdx, attempt, checkError>>
    ELSE LET ce == CaptureError(checkError, e)
         IN  /\ checkError' = ce
             /\ IF ~isTransient(e) THEN NextModel(cs, ce)
                ELSE IF attempt = 0
                     THEN \* await new Promise(res => setTimeout(res, 1000))
                          /\ pc' = "backoff"
                          /\ calls' = cs
                          /\ UNCHANGED <<modelIdx, attempt, response>>
                     ELSE NextAttempt(cs, ce)

\* searchDictionary with the first two models asked at once
searchDictionaryFansOut ==
    /\ pc = "entry"
    /\ IF ~apiKey
       THEN /\ pc' = "done"
            /\ response' = MissingKeyResponse
            /\ UNCHANGED <<modelIdx, attempt, calls>>
       ELSE /\ modelIdx' = 2
            /\ attempt' = 0
            /\ calls' = <<Call(1, 0), Call(2, 0)>>
            /\ pc' = "racing"
            /\ UNCHANGED response
    /\ UNCHANGED <<apiKey, checkError>>
    /\ UNCHANGED pageVars
    /\ UNCHANGED auxVars

\* the call of the function, up to its first await (or its early return)
searchDictionary ==
    /\ pc = "entry"
    /\ IF ~apiKey
       THEN /\ pc' = "done"
            /\ response' = MissingKeyResponse
            /\ UNCHANGED <<modelIdx, attempt, calls>>
       ELSE /\ modelIdx' = 1
            /\ attempt' = 0
            /\ calls' = <<Call(1, 0)>>
            /\ pc' = "racing"
            /\ UNCHANGED response
    /\ UNCHANGED <<apiKey, checkError>>
    /\ UNCHANGED pageVars
    /\ UNCHANGED auxVars

\* generateContent settles before the timer: the rest of the try block runs
BackendSettles ==
    /\ pc = "racing"
    /\ \E a \in SettledAttempts :
          IF a.o.ok THEN OnSuccess(Won(a.kind, a.o), a.o.data)
          ELSE OnFailure(Won(a.kind, a.o), a.o.err)
    /\ UNCHANGED apiKey
    /\ UNCHANGED pageVars
    /\ UNCHANGED auxVars

\* a timer whose callback rejects nothing
TimerNeverRejects ==
    /\ pc = "racing"
    /\ UNCHANGED vars

\* the timer fires before generateContent settles: the race rejects
TimerFires ==
    /\ pc = "racing"
    /\ OnFailure(TimedOut, TimeoutError)
    /\ UNCHANGED apiKey
    /\ UNCHANGED pageVars
    /\ UNCHANGED auxVars

\* the 1 s pause is over
BackoffOver ==
    /\ pc = "backoff"
    /\ NextAttempt(calls, checkError)
    /\ UNCHANGED <<apiKey, checkError>>
    /\ UNCHANGED pageVars
    /\ UNCHANGED auxVars

\* AbandonedSettles with a handler still attached to the abandoned call: a
\* late valid entry is returned
AbandonedSettlesResolves ==
    /\ \E i \in DOMAIN calls : \E late \in LateSettlements :
          /\ calls[i].state = "timedout"
          /\ calls' = [calls EXCEPT ![i] = [@ EXCEPT !.state = "late", !.late = late]]
          /\ IF late = "ok"
             THEN /\ pc' = "done"
                  /\ response' = ReturnSuccess(JNull)
             ELSE UNCHANGED <<pc, response>>
    /\ UNCHANGED <<apiKey, modelIdx, attempt, checkError>>
    /\ UNCHANGED pageVars
    /\ UNCHANGED auxVars

\* a call whose race the timer won settles at last: nobody awaits it
AbandonedSettles ==
    /\ \E i \in DOMAIN calls : \E late \in LateSettlements :
          /\ calls[i].state = "timedout"
          /\ calls' = [calls EXCEPT ![i] = [@ EXCEPT !.state = "late", !.late = late]]
    /\ UNCHANGED <<apiKey, pc, modelIdx, attempt, checkError, response>>
    /\ UNCHANGED pageVars
    /\ UNCHANGED auxVars

----------------------------------------------------------------------------
(* searchDictionary with its clock, in whole seconds.  The code between    *)
(* two awaits takes no time; a race lasts until the call settles or the    *)
(* 25 s timer fires, the pause lasts 1 s.  The settlement of a call that   *)
(* was abandoned takes no time of the lookup and is left out.              *)

\* setTimeout(() => reject(new Error('Request timed out')), 25000)
TimeoutSeconds == 25
\* setTimeout(res, 1000)
BackoffSeconds == 1

\* how long after its issue a call settles when it wins the race: at once,
\* or in the very second in which the timer would have fired
SettleDelays == {0, TimeoutSeconds}

TimedBackendSettles ==
    /\ pc = "racing"
    /\ \E a \in SettledAttempts :
          IF a.o.ok THEN OnSuccess(Won(a.kind, a.o), a.o.data)
          ELSE OnFailure(Won(a.kind, a.o), a.o.err)
    /\ \E d \in SettleDelays : elapsed' = elapsed + d
    /\ UNCHANGED apiKey
    /\ UNCHANGED pageVars
    /\ UNCHANGED <<invocation, rawText, parsed>>

TimedTimerFires ==
    /\ pc = "racing"
    /\ OnFailure(TimedOut, TimeoutError)
    /\ elapsed' = elapsed + TimeoutSeconds
    /\ UNCHANGED apiKey
    /\ UNCHANGED pageVars
    /\ UNCHANGED <<invocation, rawText, parsed>>

\* the pause, growing with every model
TimedBackoffGrows ==
    /\ pc = "backoff"
    /\ NextAttempt(calls, checkError)
    /\ elapsed' = elapsed + BackoffSeconds * modelIdx
    /\ UNCHANGED <<apiKey, checkError>>
    /\ UNCHANGED pageVars
    /\ UNCHANGED <<invocation, rawText, parsed>>

TimedBackoffOver ==
    /\ pc = "backoff"
    /\ NextAttempt(calls, checkError)
    /\ elapsed' = elapsed + BackoffSeconds
    /\ UNCHANGED <<apiKey, checkError>>
    /\ UNCHANGED pageVars
    /\ UNCHANGED <<invocation, rawText, parsed>>

----------------------------------------------------------------------------
(* The strip-and-parse step of searchDictionary on its own: text to        *)
(* cleanText to data, for a text as it is and for the same text inside a   *)
(* markdown fence.                                                         *)

\* bound of the texts: their length in tokens
MaxTextLen == 5

\* the tokens the texts are made of
ObjectTokens == {"{", "}", "[", "]", ":", "\"term\"", "null", "\n"}

\* every text of at most MaxTextLen tokens that is the JSON text of an object
JsonObjectTexts ==
    {t \in UNION {[1..n -> ObjectTokens] : n \in 1..MaxTextLen} :
        JsonParse(t).ok /\ JsonParse(t).val.type = "object"}

\* what may stand between a fence and the text
FencePaddings == {<<>>, <<"\n">>, <<" ">>}

\* the text inside a fence, as a model writes it
InFence(t, pad) == <<FenceJson>> \o pad \o t \o pad \o <<Fence>>

\* const cleanText = text.replace(...).replace(...).trim();
\* const data = JSON.parse(cleanText);   (ok is FALSE when it throws)
StripAndParse(t) ==
    LET p == JsonParse(StripFences(t))
    IN  [ok |-> p.ok, val |-> p.val]

\* the step, run on rawText and on rawText inside a fence
ParseBoth ==
    /\ ~parsed.done
    /\ \E pad \in FencePaddings :
          parsed' = [bare |-> StripAndParse(rawText),
                     inFence |-> StripAndParse(InFence(rawText, pad)),
                     pad |-> pad, done |-> TRUE]
    /\ UNCHANGED <<rawText, elapsed, invocation>>
    /\ UNCHANGED orchVars
    /\ UNCHANGED pageVars

----------------------------------------------------------------------------
(* The page (Home).  query, result and error are its React state; lookups  *)
(* holds one entry per searchDictionary call it started, "pending" until   *)
(* the awaited promise settles.                                            *)

\* bounds of the page's model: the characters of a typed term, and the
\* lookups one run starts
MaxTermLen == 2
MaxLookups == 2

\* useState<DictionaryResult | null>(null)
NoResult == JNull

\* a character of a term: the space, a tab, a letter, a letter with an accent
Chars == {" ", "\t", "a", "U+00E9"}
\* the range \x20-\x7E of the page's test
PrintableAscii == {" ", "a"}

Terms == UNION {[1..n -> Chars] : n \in 0..MaxTermLen}

\* /[^\x20-\x7E]/.test(cleanTerm)
HasNonAscii(term) == \E i \in DOMAIN term : term[i] \notin PrintableAscii

\* what an awaited searchDictionary may return: a validated entry, the
\* missing-key failure, or the failure after the last model with the error
\* it captured
SearchResponses ==
    {ReturnSuccess(a.o.data) : a \in {x \in SettledAttempts : x.o.ok}}
    \cup {MissingKeyResponse}
    \cup {AllFailedResponse(e) :
            e \in {a.o.err : a \in {x \in SettledAttempts : ~x.o.ok}} \cup {TimeoutError}}

\* what the await rejects with when the call of the server action itself
\* fails (the page is offline): an error with a message, or with none
TransportErrors == {<<"Failed to fetch">>, <<>>}

\* isPending of useTransition
isPending == \E i \in DOMAIN lookups : lookups[i] = "pending"

\* executeSearch without the test of the characters
executeSearchAnyText(term) ==
    LET cleanTerm == Trim(term)
    IN  IF cleanTerm = <<>>
        THEN /\ searchExit' = "ignored"
             /\ UNCHANGED <<query, result, error, lookups, shownOf>>
        ELSE /\ Len(lookups) < MaxLookups
             /\ searchExit' = "started"
             /\ query' = cleanTerm
             /\ error' = <<>>
             /\ result' = NoResult
             /\ shownOf' = 0
             /\ lookups' = Append(lookups, "pending")

\* executeSearch with an error text for a term that is empty
executeSearchReportsEmpty(term) ==
    LET cleanTerm == Trim(term)
    IN  IF cleanTerm = <<>>
        THEN /\ searchExit' = "ignored"
             /\ error' = <<"Please enter a word.">>
             /\ UNCHANGED <<query, result, lookups, shownOf>>
        ELSE IF HasNonAscii(cleanTerm)
        THEN /\ error' = <<"Please enter English text only.">>
             /\ result' = NoResult
             /\ shownOf' = 0
             /\ searchExit' = "rejected"
             /\ UNCHANGED <<query, lookups>>
        ELSE /\ Len(lookups) < MaxLookups
             /\ searchExit' = "started"
             /\ query' = cleanTerm
             /\ error' = <<>>
             /\ result' = NoResult
             /\ shownOf' = 0
             /\ lookups' = Append(lookups, "pending")

\* executeSearch with setQuery(cleanTerm) ahead of the test of the characters
executeSearchSetsQueryFirst(term) ==
    LET cleanTerm == Trim(term)
    IN  IF cleanTerm = <<>>
        THEN /\ searchExit' = "ignored"
             /\ UNCHANGED <<query, result, error, lookups, shownOf>>
        ELSE IF HasNonAscii(cleanTerm)
        THEN /\ query' = cleanTerm
             /\ error' = <<"Please enter English text only.">>
             /\ result' = NoResult
             /\ shownOf' = 0
             /\ searchExit' = "rejected"
             /\ UNCHANGED lookups
        ELSE /\ Len(lookups) < MaxLookups
             /\ searchExit' = "started"
             /\ query' = cleanTerm
             /\ error' = <<>>
             /\ result' = NoResult
             /\ shownOf' = 0
             /\ lookups' = Append(lookups, "pending")

\* const executeSearch = (term: string) => { ... }
executeSearch(term) ==
    LET cleanTerm == Trim(term)
    IN  IF cleanTerm = <<>>
        THEN \* if (!cleanTerm) return;
             /\ searchExit' = "ignored"
             /\ UNCHANGED <<query, result, error, lookups, shownOf>>
        ELSE IF HasNonAscii(cleanTerm)
        THEN /\ error' = <<"Please enter English text only.">>
             /\ result' = NoResult
             /\ shownOf' = 0
             /\ searchExit' = "rejected"
             /\ UNCHANGED <<query, lookups>>
        ELSE /\ Len(lookups) < MaxLookups
             /\ searchExit' = "started"
             /\ query' = cleanTerm
             /\ error' = <<>>
             /\ result' = NoResult
             /\ shownOf' = 0
             \* startTransition(async () => { ... await searchDictionary(cleanTerm)
             /\ lookups' = Append(lookups, "pending")

\* onChange={(e) => setQuery(e.target.value)}: a character is typed at the
\* end of the input, or the last one deleted (every term of Terms is typed
\* that way)
OnChange ==
    /\ \/ \E c \in Chars : Len(query) < MaxTermLen /\ query' = Append(query, c)
       \/ query # <<>> /\ query' = SubSeq(query, 1, Len(query) - 1)
    /\ UNCHANGED <<result, error, lookups, shownOf, searchExit>>
    /\ UNCHANGED orchVars
    /\ UNCHANGED auxVars

\* the form's onSubmit
handleSearch ==
    /\ executeSearch(query)
    /\ UNCHANGED orchVars
    /\ UNCHANGED auxVars

\* onClick={() => executeSearch(w.term)} of a row of result.rootWords, which
\* is rendered for the entry of a word when no lookup is pending; the term
\* is whatever string the backend put there
RootWordClick ==
    /\ result # NoResult
    /\ ~isPending
    /\ GetProp(result, "\"type\"") = JStr("\"word\"")
    /\ LET rootWords == GetProp(result, "\"rootWords\"")
       IN  /\ Truthy(rootWords)
           /\ IsArray(rootWords)
           /\ Len(rootWords.items) > 0
    /\ \E t \in Terms : executeSearch(t)
    /\ UNCHANGED orchVars
    /\ UNCHANGED auxVars

\* the clear button, rendered when query is not empty
handleClear ==
    /\ query # <<>>
    /\ query' = <<>>
    /\ result' = NoResult
    /\ error' = <<>>
    /\ shownOf' = 0
    /\ searchExit' = "cleared"
    /\ UNCHANGED lookups
    /\ UNCHANGED orchVars
    /\ UNCHANGED auxVars

\* the awaited searchDictionary of lookup i returns: the try block's rest
LookupReturns ==
    /\ \E i \in DOMAIN lookups : \E r \in SearchResponses :
          /\ lookups[i] = "pending"
          /\ lookups' = [lookups EXCEPT ![i] = "returned"]
          /\ IF r.status = "success"
             THEN /\ result' = r.data
                  /\ error' = <<>>
             ELSE /\ result' = NoResult
                  /\ error' = r.error
          /\ shownOf' = i
    /\ UNCHANGED <<query, searchExit>>
    /\ UNCHANGED orchVars
    /\ UNCHANGED auxVars

\* the await of lookup i rejects: the catch block
\* setError(err.message || 'Failed to retrieve information. Please try again.')
LookupThrows ==
    /\ \E i \in DOMAIN lookups : \E m \in TransportErrors :
          /\ lookups[i] = "pending"
          /\ lookups' = [lookups EXCEPT ![i] = "threw"]
          /\ error' = IF m # <<>> THEN m
                      ELSE <<"Failed to retrieve information. Please try again.">>
          /\ shownOf' = i
    /\ UNCHANGED <<query, result, searchExit>>
    /\ UNCHANGED orchVars
    /\ UNCHANGED auxVars

----------------------------------------------------------------------------
(* searchDictionary, the variant without retries, and the page that calls  *)
(* it (src/app/page.tsx).  The variant returns the entry itself and throws *)
(* its failures; it uses pc, modelIdx, calls and response as the variant   *)
(* with retries does, and checkError stands for its lastError.             *)

\* candidateModels of the variant without retries
NoRetryModels == <<"gemini-2.0-flash-exp", "gemini-1.5-flash", "gemini-pro">>

\* return data
Returns(data) == [status |-> "returned", data |-> data, error |-> <<>>]

\* throw new Error('Server configuration error: API Key missing')
NoRetryMissingKey == Throws(<<"Server configuration error: API Key missing">>)

\* throw new Error("Failed to retrieve dictionary data. Please try again.")
NoRetryAllFailed == Throws(<<"Failed to retrieve dictionary data. Please try again.">>)

\* the end of the loop that returns null where the code throws
NoRetryFailureReturnsNull(cs, e) ==
    /\ checkError' = e
    /\ IF modelIdx < Len(NoRetryModels)
       THEN /\ modelIdx' = modelIdx + 1
            /\ calls' = Append(cs, Call(modelIdx + 1, 0))
            /\ pc' = "racing"
            /\ UNCHANGED response
       ELSE /\ pc' = "done"
            /\ response' = Returns(JNull)
            /\ calls' = cs
            /\ UNCHANGED modelIdx

\* the catch block (lastError = error), and the loop up to the next await
\* or to the throw after the last model
NoRetryFailure(cs, e) ==
    /\ checkError' = e
    /\ IF modelIdx < Len(NoRetryModels)
       THEN /\ modelIdx' = modelIdx + 1
            /\ calls' = Append(cs, Call(modelIdx + 1, 0))
            /\ pc' = "racing"
            /\ UNCHANGED response
       ELSE /\ pc' = "done"
            /\ response' = NoRetryAllFailed
            /\ calls' = cs
            /\ UNCHANGED modelIdx

\* the page's executeSearch: the same lines as the current page's, up to the
\* call of searchDictionary.  One lookup is followed.
oldExecuteSearch ==
    /\ lookups = <<>>
    /\ \E t \in Terms : executeSearch(t)
    /\ UNCHANGED orchVars
    /\ UNCHANGED auxVars

\* the call of the function, up to its first await or its throw
searchDictionaryNoRetry ==
    /\ pc = "entry"
    /\ lookups = <<"pending">>
    /\ IF ~apiKey
       THEN /\ pc' = "done"
            /\ response' = NoRetryMissingKey
            /\ UNCHANGED <<modelIdx, calls>>
       ELSE /\ modelIdx' = 1
            /\ calls' = <<Call(1, 0)>>
            /\ pc' = "racing"
            /\ UNCHANGED response
    /\ UNCHANGED <<apiKey, attempt, checkError>>
    /\ UNCHANGED pageVars
    /\ UNCHANGED auxVars

\* generateContent settles before the 15 s timer: the rest of the try block
NoRetrySettles ==
    /\ pc = "racing"
    /\ \E a \in SettledAttempts :
          IF a.o.ok
          THEN /\ pc' = "done"
               /\ response' = Returns(a.o.data)
               /\ calls' = Won(a.kind, a.o)
               /\ UNCHANGED <<modelIdx, checkError>>
          ELSE NoRetryFailure(Won(a.kind, a.o), a.o.err)
    /\ UNCHANGED <<apiKey, attempt>>
    /\ UNCHANGED pageVars
    /\ UNCHANGED auxVars

\* the 15 s timer fires first: the race rejects
NoRetryTimerFires ==
    /\ pc = "racing"
    /\ NoRetryFailure(TimedOut, TimeoutError)
    /\ UNCHANGED <<apiKey, attempt>>
    /\ UNCHANGED pageVars
    /\ UNCHANGED auxVars

\* const data = await searchDictionary(cleanTerm); setResult(data);
oldLookupReturns ==
    /\ pc = "done"
    /\ lookups = <<"pending">>
    /\ response.status = "returned"
    /\ lookups' = <<"returned">>
    /\ result' = response.data
    /\ shownOf' = 1
    /\ UNCHANGED <<query, error, searchExit>>
    /\ UNCHANGED orchVars
    /\ UNCHANGED auxVars

\* catch (err) { setError(err.message || 'Failed to retrieve ...') }
oldLookupThrows ==
    /\ pc = "done"
    /\ lookups = <<"pending">>
    /\ response.status = "thrown"
    /\ lookups' = <<"threw">>
    /\ error' = IF response.error # <<>> THEN response.error
                ELSE <<"Failed to retrieve information. Please try again.">>
    /\ shownOf' = 1
    /\ UNCHANGED <<query, result, searchExit>>
    /\ UNCHANGED orchVars
    /\ UNCHANGED auxVars

----------------------------------------------------------------------------
\* nothing has been handed to the strip-and-parse step
NoParse ==
    [bare |-> [ok |-> FALSE, val |-> JUndefined],
     inFence |-> [ok |-> FALSE, val |-> JUndefined],
     pad |-> <<>>, done |-> FALSE]

Init ==
    /\ apiKey \in BOOLEAN
    /\ pc = "entry"
    /\ modelIdx = 0
    /\ attempt = 0
    /\ checkError = NoError
    /\ calls = <<>>
    /\ response = NoResponse
    /\ query = <<>>
    /\ result = NoResult
    /\ error = <<>>
    /\ lookups = <<>>
    /\ shownOf = 0
    /\ searchExit = "none"
    /\ elapsed = 0
    /\ invocation = 1
    /\ rawText = <<>>
    /\ parsed = NoParse

Next ==
    \/ searchDictionary
    \/ BackendSettles
    \/ TimerFires
    \/ BackoffOver
    \/ AbandonedSettles

Spec == Init /\ [][Next]_vars

\* the timers of the runtime fire: the 25 s timer of an open race, and the
\* 1 s timer of the pause.  Nothing makes a backend settle.
FairSpec == Spec /\ WF_vars(TimerFires) /\ WF_vars(BackoffOver)

PageNext ==
    \/ OnChange
    \/ handleSearch
    \/ RootWordClick
    \/ handleClear
    \/ LookupReturns
    \/ LookupThrows

PageSpec == Init /\ [][PageNext]_vars

TimedNext ==
    \/ searchDictionary
    \/ TimedBackendSettles
    \/ TimedTimerFires
    \/ TimedBackoffOver

TimedSpec == Init /\ [][TimedNext]_vars

\* the step's specification: any object text is handed to it
FenceInit ==
    /\ apiKey \in BOOLEAN
    /\ pc = "entry"
    /\ modelIdx = 0
    /\ attempt = 0
    /\ checkError = NoError
    /\ calls = <<>>
    /\ response = NoResponse
    /\ query = <<>>
    /\ result = NoResult
    /\ error = <<>>
    /\ lookups = <<>>
    /\ shownOf = 0
    /\ searchExit = "none"
    /\ elapsed = 0
    /\ invocation = 1
    /\ rawText \in JsonObjectTexts
    /\ parsed = NoParse

FenceNext == ParseBoth

FenceSpec == FenceInit /\ [][FenceNext]_vars

\* bound: the calls of searchDictionary one run makes, one after the other
MaxInvocations == 2

\* a call of searchDictionary whose checkError lives outside the function
ReinvokeKeepsError ==
    /\ pc = "done"
    /\ invocation < MaxInvocations
    /\ invocation' = invocation + 1
    /\ pc' = "entry"
    /\ modelIdx' = 0
    /\ attempt' = 0
    /\ calls' = <<>>
    /\ response' = NoResponse
    /\ UNCHANGED <<apiKey, checkError, elapsed, rawText, parsed>>
    /\ UNCHANGED pageVars

\* searchDictionary is called again after it returned.  apiKey, genAI,
\* candidateModels, prompt, checkError and the loop variables are locals of
\* the call, made anew; calls is the new call's log (the calls an earlier
\* invocation abandoned have no handler left in it).
Reinvoke ==
    /\ pc = "done"
    /\ invocation < MaxInvocations
    /\ invocation' = invocation + 1
    /\ pc' = "entry"
    /\ modelIdx' = 0
    /\ attempt' = 0
    /\ checkError' = NoError
    /\ calls' = <<>>
    /\ response' = NoResponse
    /\ UNCHANGED <<apiKey, elapsed, rawText, parsed>>
    /\ UNCHANGED pageVars

RepeatNext ==
    \/ searchDictionary
    \/ BackendSettles
    \/ TimerFires
    \/ BackoffOver
    \/ AbandonedSettles
    \/ Reinvoke

RepeatSpec == Init /\ [][RepeatNext]_vars

NoRetryNext ==
    \/ oldExecuteSearch
    \/ searchDictionaryNoRetry
    \/ NoRetrySettles
    \/ NoRetryTimerFires
    \/ AbandonedSettles
    \/ oldLookupReturns
    \/ oldLookupThrows

NoRetrySpec == Init /\ [][NoRetryNext]_vars
----------------------------------------------------------------------------
(* Properties.                                                             *)

\* the failure classes the design calls transient
TransientCauses == {"Timeout", "ServiceUnavailable"}

Failed(c) == c.err # NoError
Validated(c) == c.state = "won" /\ c.err = NoError

\* C1: as soon as an attempt yields a payload that parses and passes the
\* validation, searchDictionary returns success with exactly that attempt's
\* payload, every earlier attempt having failed, and issues no call after it
\* (nor ever changes what it returned).
C1_FirstValidPayloadReturned ==
    [][/\ \A i \in DOMAIN calls' :
            Validated(calls'[i]) =>
                /\ i = Len(calls')
                /\ pc' = "done"
                /\ response'.status = "success"
                /\ response'.data = calls'[i].data
                /\ \A j \in 1..(i - 1) : Failed(calls'[j])
       /\ response'.status = "success" =>
            /\ calls' # <<>>
            /\ Validated(calls'[Len(calls')])
       /\ pc = "done" => /\ Len(calls') = Len(calls)
                         /\ response' = response
                         /\ pc' = "done"]_vars

\* C1, its case: the first model failed twice with transient errors, the
\* second returned the idiom's entry, and a third model was left uncalled.
C1_Witness ==
    /\ pc = "done"
    /\ response.status = "success"
    /\ Len(calls) = 3
    /\ calls[1].err.cause \in TransientCauses
    /\ calls[2].err.cause \in TransientCauses
    /\ calls[3].model = 2
    /\ calls[3].model < NumModels
    /\ GetProp(response.data, "\"term\"") = JStr("\"kick the bucket\"")

\* C2: an attempt that fails with a non-transient error (malformed JSON,
\* invalid schema, any error that is neither service-unavailable nor timeout)
\* is never followed by a second attempt on the same model: no pause starts,
\* and the next call, if any, goes to the next model.
C2_NonTransientNotRetried ==
    \A i \in DOMAIN calls :
        (Failed(calls[i]) /\ calls[i].err.cause \notin TransientCauses) =>
            /\ (i = Len(calls) => pc # "backoff")
            /\ (i < Len(calls) => /\ calls[i + 1].model = calls[i].model + 1
                                  /\ calls[i + 1].attempt = 0)

\* C3: at most 2 attempts per model, the second only after a first attempt
\* that failed with a transient error (service-unavailable or timeout), and
\* so at most 6 calls per lookup.
C3_SecondAttemptOnlyAfterTransient ==
    /\ \A m \in 1..NumModels :
          Cardinality({i \in DOMAIN calls : calls[i].model = m}) <= 2
    /\ Len(calls) <= 6
    /\ \A i \in DOMAIN calls :
          calls[i].attempt > 0 =>
              /\ i > 1
              /\ calls[i - 1].model = calls[i].model
              /\ calls[i - 1].attempt = 0
              /\ calls[i - 1].err.cause \in TransientCauses

\* the part of C3 that holds whatever the classification does: at most 2
\* attempts per model, numbered 0 and 1, and at most 6 calls
AttemptsBounded ==
    /\ \A m \in 1..NumModels :
          Cardinality({i \in DOMAIN calls : calls[i].model = m}) <= 2
    /\ Len(calls) <= 6
    /\ \A i \in DOMAIN calls : calls[i].attempt \in {0, 1}

\* C4: an attempt whose timer fired before its call settled failed with the
\* Timeout error, which is transient, and used up one of the model's two
\* attempts: after a first attempt comes the pause and then exactly one
\* retry on the same model, after a second attempt comes the next model (or
\* the failure, after the last one); and this is so whether or not the
\* abandoned call settled afterwards, with a valid entry or not.
C4_TimeoutConsumesAttempt ==
    \A i \in DOMAIN calls :
        calls[i].state \in {"timedout", "late"} =>
            /\ calls[i].err.cause = "Timeout"
            /\ calls[i].err.message = <<"Request", "timed out">>
            /\ isTransient(calls[i].err)
            /\ IF calls[i].attempt = 0
               THEN \/ i = Len(calls) /\ pc = "backoff"
                    \/ /\ i < Len(calls)
                       /\ calls[i + 1].model = calls[i].model
                       /\ calls[i + 1].attempt = 1
                       /\ (i + 2 <= Len(calls) => calls[i + 2].model # calls[i].model)
               ELSE \/ /\ i = Len(calls)
                       /\ calls[i].model = NumModels
                       /\ pc = "done"
                       /\ response.status = "failure"
                    \/ /\ i < Len(calls)
                       /\ calls[i + 1].model = calls[i].model + 1
                       /\ calls[i + 1].attempt = 0

\* C4, its case: the first model timed out twice, the abandoned first call
\* resolved with a valid entry afterwards, and the second model was called.
C4_Witness ==
    /\ Len(calls) >= 3
    /\ calls[1].state = "late"
    /\ calls[1].late = "ok"
    /\ calls[2].state = "timedout"
    /\ calls[2].model = 1
    /\ calls[2].attempt = 1
    /\ calls[3].model = 2

\* C5: with timers that fire, every call of searchDictionary that got past
\* its entry returns, whatever the backends do.
C5_EventuallyReturns == (pc # "entry") ~> (pc = "done")

\* C5, its case: no call ever settled, and the lookup returned its failure
\* after six timeouts.
C5_Witness ==
    /\ pc = "done"
    /\ response.status = "failure"
    /\ Len(calls) = 6
    /\ \A i \in DOMAIN calls : calls[i].state = "timedout"

\* C6: when every attempt failed, the failure returned carries a
\* service-unavailable (503) error if any attempt failed with one, and the
\* first recorded error otherwise.
C6_PrefersServiceUnavailable ==
    (pc = "done" /\ response.status = "failure" /\ calls # <<>>) =>
        IF \E i \in DOMAIN calls : calls[i].err.cause = "ServiceUnavailable"
        THEN \E i \in DOMAIN calls :
                /\ calls[i].err.cause = "ServiceUnavailable"
                /\ response.error =
                     <<"Failed to retrieve dictionary data. Last error:">>
                     \o calls[i].err.message
        ELSE response.error =
                <<"Failed to retrieve dictionary data. Last error:">>
                \o calls[1].err.message

\* C7: when every attempt on every model failed with a 503, the lookup
\* returns the failure whose text carries the 503 error's message, after
\* exactly two attempts on each model.
C7_AllUnavailable ==
    (/\ pc = "done"
     /\ calls # <<>>
     /\ \A i \in DOMAIN calls : calls[i].err.cause = "ServiceUnavailable") =>
        /\ response.status = "failure"
        /\ response.error =
             <<"Failed to retrieve dictionary data. Last error:">>
             \o ServiceUnavailableError.message
        /\ Includes(response.error, "503")
        /\ Len(calls) = NumModels * 2
        /\ \A m \in 1..NumModels :
              /\ calls[2 * m - 1].model = m /\ calls[2 * m - 1].attempt = 0
              /\ calls[2 * m].model = m /\ calls[2 * m].attempt = 1

\* C7, its case: six calls, each rejected with the 503.
C7_Witness ==
    /\ pc = "done"
    /\ Len(calls) = 6
    /\ \A i \in DOMAIN calls : /\ calls[i].kind = "reject"
                               /\ calls[i].err = ServiceUnavailableError

\* C8: whatever the backends do, searchDictionary ends by returning a
\* SearchResponse, success with data or failure with an error text; nothing
\* is thrown out of it, nor out of its catch block.
C8_NeverThrows ==
    /\ response.status # "thrown"
    /\ pc = "done" =>
          \/ /\ response.status = "success"
             /\ response.data.type = "object"
             /\ response.error = <<>>
          \/ /\ response.status = "failure"
             /\ response.data = JUndefined
             /\ response.error # <<>>
    /\ pc # "done" => response = NoResponse

\* C8, its case: a null payload, prose and an object without its term, one
\* per model, and the failure returned.
C8_Witness ==
    /\ pc = "done"
    /\ response.status = "failure"
    /\ Len(calls) = 3
    /\ calls[1].err = NullPayloadError
    /\ calls[2].err.name = "SyntaxError"
    /\ calls[3].err = InvalidStructureError

\* C9: without the API key searchDictionary returns a failure value and
\* issues no backend call.
C9_MissingKeyFails ==
    ~apiKey =>
        /\ calls = <<>>
        /\ pc \in {"entry", "done"}
        /\ response.status \in {"pending", "failure"}
        /\ pc = "done" =>
              /\ response.status = "failure"
              /\ response.error # <<>>

\* C9, its case: the key is missing and the function has returned.
C9_Witness ==
    /\ ~apiKey
    /\ pc = "done"
    /\ response.status = "failure"

\* C10: once no lookup is pending, the result or error that a lookup's
\* completion put on the page is that of the lookup started last.
C10_LatestLookupShown ==
    (lookups # <<>> /\ ~isPending /\ shownOf # 0) => shownOf = Len(lookups)

\* a call that was issued and has not settled: the one of the open race, and
\* every call that its timer abandoned
Unsettled(c) == c.state \in {"inflight", "timedout"}

\* C11 (as stated): at every moment at most one call of the lookup is issued
\* and not yet settled, also after an attempt timed out.
C11_OneCallInFlight ==
    Cardinality({i \in DOMAIN calls : Unsettled(calls[i])}) <= 1

\* C11 (amended): at every moment the lookup awaits at most one call, the
\* one it issued last, and it issues the next only when that race is over;
\* the calls whose timer won are left open behind it, one per timed-out
\* attempt.
C11_OneCallAwaited ==
    /\ \A i \in DOMAIN calls : calls[i].state = "inflight" => i = Len(calls)
    /\ pc = "racing" <=> (calls # <<>> /\ Current.state = "inflight")
    /\ Cardinality({i \in DOMAIN calls : calls[i].state = "timedout"})
          <= NumModels * MaxAttempts

\* C11, its case: the first attempt timed out and its call is still open
\* while the retry's call is awaited.
C11_Witness ==
    /\ Len(calls) = 2
    /\ calls[1].state = "timedout"
    /\ calls[2].state = "inflight"
    /\ pc = "racing"

\* C12: once the timer won an attempt's race, the later settlement of that
\* attempt's call, with a valid entry or not, changes nothing of the lookup:
\* not what it returns, not the error it recorded, not the model and attempt
\* it is at, nor the calls it issued; and the attempt stays the Timeout
\* failure it was.
C12_LateSettlementIgnored ==
    [][(\E i \in DOMAIN calls :
            /\ calls[i].state = "timedout"
            /\ i \in DOMAIN calls'
            /\ calls'[i].state = "late") =>
          /\ UNCHANGED <<pc, modelIdx, attempt, checkError, response>>
          /\ Len(calls') = Len(calls)
          /\ \A j \in DOMAIN calls :
                /\ calls'[j].err = calls[j].err
                /\ calls'[j].data = calls[j].data
                /\ calls'[j].model = calls[j].model
                /\ calls'[j].attempt = calls[j].attempt
                /\ (calls[j].state # "timedout" => calls'[j] = calls[j])]_vars

\* C12, its case: every race was lost to the timer, the first call then
\* resolved with a valid entry and the second with an invalid one, and the
\* lookup returned the failure with the Timeout error all the same.
C12_Witness ==
    /\ pc = "done"
    /\ Len(calls) = 6
    /\ calls[1].state = "late" /\ calls[1].late = "ok"
    /\ calls[2].state = "late" /\ calls[2].late = "failed"
    /\ \A i \in DOMAIN calls : calls[i].err = TimeoutError
    /\ response = AllFailedResponse(TimeoutError)

\* C16: the models are called in the configured order: the first call goes
\* to the first model, each next call to the same model or to the one right
\* after it, never to an earlier one, and a model is called only after every
\* model before it has had a failed attempt.
C16_FixedOrder ==
    /\ calls # <<>> => calls[1].model = 1
    /\ \A i \in DOMAIN calls :
          /\ calls[i].model \in 1..NumModels
          /\ \A j \in DOMAIN calls : j < i => calls[j].model <= calls[i].model
          /\ i > 1 => calls[i].model \in {calls[i - 1].model, calls[i - 1].model + 1}
          /\ \A m \in 1..(calls[i].model - 1) :
                \E j \in 1..(i - 1) : calls[j].model = m /\ Failed(calls[j])
    /\ calls # <<>> => modelIdx = calls[Len(calls)].model

\* C16, its case: the first model failed twice, the second once with an
\* error that is not retried, and the third is being called.
C16_Witness ==
    /\ Len(calls) = 4
    /\ calls[1].model = 1 /\ calls[2].model = 1
    /\ calls[3].model = 2 /\ calls[3].err = ForbiddenError
    /\ calls[4].model = 3
    /\ pc = "racing"

\* a term that holds something: not missing, not null, not the empty string,
\* not an empty list
NonEmptyTerm(v) ==
    /\ v.type \notin {"undefined", "null"}
    /\ v # JStr(EmptyStrLit)
    /\ v.type = "array" => Len(v.items) > 0

\* C17: every entry returned with success has a non-empty term and a meaning
\* that is an array; a parsed payload that lacks either is never returned,
\* and the attempt that got it failed with an error that is not retried.
C17_ReturnedEntryValid ==
    /\ response.status = "success" =>
          /\ NonEmptyTerm(GetProp(response.data, "\"term\""))
          /\ GetProp(response.data, "\"meaning\"").type = "array"
    /\ \A i \in DOMAIN calls :
          calls[i].err.cause = "InvalidSchema" =>
              /\ ~Validated(calls[i])
              /\ (i = Len(calls) => pc # "backoff")
              /\ (i < Len(calls) => calls[i + 1].model = calls[i].model + 1)

\* the part of C17 that holds: the term of a returned entry is truthy, its
\* meaning an array, and an attempt whose payload misses that is not retried
ReturnedEntryTruthy ==
    /\ response.status = "success" =>
          /\ GetProp(response.data, "\"term\"") \notin
                {JUndefined, JNull, JStr(EmptyStrLit)}
          /\ GetProp(response.data, "\"meaning\"").type = "array"
    /\ \A i \in DOMAIN calls :
          calls[i].err.cause = "InvalidSchema" =>
              /\ ~Validated(calls[i])
              /\ (i = Len(calls) => pc # "backoff")
              /\ (i < Len(calls) => calls[i + 1].model = calls[i].model + 1)

EnglishOnly == <<"Please enter English text only.">>

\* C14 (as stated): executeSearch, called with a term that holds a character
\* outside 0x20-0x7E anywhere, also first or last, sets the non-English
\* error and starts no lookup.  The term is the one in the input when the
\* form is submitted.
C14_RawNonAsciiRejected ==
    [][((\E i \in DOMAIN query : query[i] \notin PrintableAscii)
        /\ executeSearch(query)) =>
            /\ searchExit' = "rejected"
            /\ error' = EnglishOnly
            /\ lookups' = lookups]_vars

\* C14 (amended): executeSearch, called with a term whose trimmed text holds
\* a character outside 0x20-0x7E, sets the non-English error, clears the
\* result, keeps the query and starts no lookup.  The term is the one in the
\* input when the form is submitted, and the input can hold any term.
C14_TrimmedNonAsciiRejected ==
    [][((\E i \in DOMAIN Trim(query) : Trim(query)[i] \notin PrintableAscii)
        /\ executeSearch(query)) =>
            /\ searchExit' = "rejected"
            /\ error' = EnglishOnly
            /\ result' = NoResult
            /\ lookups' = lookups
            /\ query' = query]_vars

\* C14, its case: the form was submitted with a letter and an accented
\* letter in the input, and the call ended at the non-English error with no
\* lookup started.
C14_Witness ==
    /\ query = <<"a", "U+00E9">>
    /\ searchExit = "rejected"
    /\ error = EnglishOnly
    /\ result = NoResult
    /\ lookups = <<>>

C13_Within150Seconds ==
    elapsed <= NumModels * MaxAttempts * TimeoutSeconds

\* C13 (amended): the time from the first call to the return is at most
\* 3 x 2 x 25 s for the races plus 3 x 1 s for the pauses, one before each
\* model's second attempt: 153 s.
C13_WithinRacesAndPauses ==
    /\ elapsed <= NumModels * MaxAttempts * TimeoutSeconds
                  + NumModels * (MaxAttempts - 1) * BackoffSeconds
    /\ elapsed <= 153
    /\ calls = <<>> => elapsed = 0

\* C13, its case: every race was lost to the timer, and the lookup returned
\* its failure 153 s after its first call.
C13_Witness ==
    /\ pc = "done"
    /\ response.status = "failure"
    /\ Len(calls) = NumModels * MaxAttempts
    /\ \A i \in DOMAIN calls : calls[i].state = "timedout"
    /\ elapsed = 153

\* C18: for every JSON text t of an object, stripping the fences and parsing
\* gives the same object for t inside a markdown fence as for t itself.
C18_FenceRoundTrip ==
    parsed.done =>
        /\ parsed.bare.ok
        /\ parsed.bare.val.type = "object"
        /\ parsed.inFence.ok
        /\ parsed.inFence.val = parsed.bare.val

\* C18, its case: an object with a member, on lines of its own inside the
\* fence, parsed to that object both ways.
C18_Witness ==
    /\ parsed.done
    /\ rawText = <<"{", "\"term\"", ":", "null", "}">>
    /\ parsed.pad = <<"\n">>
    /\ parsed.inFence.ok
    /\ parsed.inFence.val = JObj(<<[k |-> "\"term\"", v |-> JNull]>>)
    /\ parsed.bare.val = JObj(<<[k |-> "\"term\"", v |-> JNull]>>)

\* what a call of searchDictionary returns, told from its own calls alone
OwnOutcome ==
    IF ~apiKey THEN MissingKeyResponse
    ELSE IF Validated(calls[Len(calls)])
         THEN ReturnSuccess(calls[Len(calls)].data)
         ELSE AllFailedResponse(calls[1].err)

C21_PauseOnlyAfterTransient ==
    /\ pc = "backoff" =>
          /\ calls # <<>>
          /\ Current.attempt = 0
          /\ Failed(Current)
          /\ Current.err.cause \in TransientCauses
    /\ \A i \in DOMAIN calls :
          (i < Len(calls) /\ calls[i].attempt = 0
           /\ calls[i].err.cause \in TransientCauses) =>
              /\ calls[i + 1].model = calls[i].model
              /\ calls[i + 1].attempt = 1

\* the part of C21 that holds, with transient read as the code reads it (the
\* message holds 503 or timed out): the pause follows a first attempt that
\* failed so and nothing else, and the retry follows the pause
PauseOnlyAfterTransientMessage ==
    /\ pc = "backoff" =>
          /\ calls # <<>>
          /\ Current.attempt = 0
          /\ Failed(Current)
          /\ isTransient(Current.err)
    /\ \A i \in DOMAIN calls :
          (i < Len(calls) /\ calls[i].attempt = 0 /\ Failed(calls[i])
           /\ isTransient(calls[i].err)) =>
              /\ calls[i + 1].model = calls[i].model
              /\ calls[i + 1].attempt = 1

\* C22: every entry returned with success has the type tag "word" or
\* "idiom"; a payload with another tag, or none, is not returned.
C22_TypeTagClosed ==
    response.status = "success" =>
        GetProp(response.data, "\"type\"") \in {JStr("\"word\""), JStr("\"idiom\"")}

\* C23: in every entry returned with success, each group of meaning has a
\* definitions field that is a non-empty list, so that the page's
\* group.definitions.map is applied to a list.
C23_DefinitionsPresent ==
    response.status = "success" =>
        LET meaning == GetProp(response.data, "\"meaning\"")
        IN  /\ meaning.type = "array"
            /\ \A i \in DOMAIN meaning.items :
                  /\ meaning.items[i].type = "object"
                  /\ GetProp(meaning.items[i], "\"definitions\"").type = "array"
                  /\ GetProp(meaning.items[i], "\"definitions\"").items # <<>>


----------------------------------------------------------------------------
(* The variant of searchDictionary without retries                          *)

\* C24: in the variant without retries, a call made without an API key
\* returns null and does not throw
C24_MissingKeyReturnsNull ==
    (pc = "done" /\ ~apiKey) => response = Returns(JNull)

\* C25: in the variant without retries each model is called at most once and
\* in list order; every failed call, transient or not, is followed by the
\* call of the next model; a validated payload is returned and no later
\* model is called; after the failure of the last model the function throws
\* the fixed generic message, and the page shows that message as its error
C25_OnePassThenThrow ==
    /\ Len(calls) <= Len(NoRetryModels)
    /\ pc # "backoff"
    /\ \A i \in DOMAIN calls :
          /\ calls[i].model = i
          /\ calls[i].attempt = 0
          /\ (Failed(calls[i]) /\ i < Len(NoRetryModels)) => Len(calls) > i
          /\ (Failed(calls[i]) /\ i = Len(NoRetryModels)) =>
                (pc = "done" /\ response = NoRetryAllFailed)
          /\ Validated(calls[i]) =>
                /\ i = Len(calls)
                /\ pc = "done"
                /\ response = Returns(calls[i].data)
    /\ (pc = "done" /\ response.status = "thrown" /\ apiKey) =>
          /\ Len(calls) = Len(NoRetryModels)
          /\ \A i \in DOMAIN calls : Failed(calls[i])
    /\ (lookups = <<"threw">> /\ apiKey) =>
          /\ error = <<"Failed to retrieve dictionary data. Please try again.">>
          /\ result = NoResult
    /\ lookups = <<"returned">> => result = response.data

\* three calls fail in three different ways, one of them transient, and the
\* page shows the generic message
C25_Witness ==
    /\ lookups = <<"threw">>
    /\ Len(calls) = 3
    /\ calls[1].err = ServiceUnavailableError
    /\ calls[2].err = TimeoutError
    /\ calls[3].err.name = "SyntaxError"
    /\ error = <<"Failed to retrieve dictionary data. Please try again.">>


----------------------------------------------------------------------------
(* The page between lookups                                                 *)

\* C26: on the current page, whenever no lookup is pending, the state never
\* holds a result and an error message together
C26_ResultOrErrorNotBoth ==
    ~isPending => ~(result # NoResult /\ error # <<>>)


\* C27: once handleClear has run with a lookup in flight, and no search has
\* been submitted since, the page stays cleared: the completion of that
\* lookup sets neither result nor error
C27_ClearedStaysCleared ==
    searchExit = "cleared" => (result = NoResult /\ error = <<>>)


\* C28: executeSearch with an empty or all-white-space term changes nothing:
\* query, result and error, a result or an error text on the page included,
\* stay what they were and no lookup is started; with a term rejected as
\* non-English it sets the error, clears the result, leaves the query
\* unchanged and starts no lookup.  The term is the one in the input when
\* the form is submitted.
C28_GuardFrame ==
    [][executeSearch(query) =>
          /\ Trim(query) = <<>> =>
                UNCHANGED <<query, result, error, lookups, shownOf>>
          /\ (Trim(query) # <<>> /\ HasNonAscii(Trim(query))) =>
                /\ error' = EnglishOnly
                /\ result' = NoResult
                /\ UNCHANGED <<query, lookups>>]_vars

\* C28, its case: the non-English error was on the page, the input was
\* emptied to white space and submitted, and the error text is still there
C28_Witness ==
    /\ searchExit = "ignored"
    /\ error = EnglishOnly
    /\ query = <<" ">>
    /\ lookups = <<>>

=============================================================================
